---- MODULE Spec2Model ----
(***************************************************************************)
(* The todo synchronization flow of React-Todo-App: the state container    *)
(* of the Dashboard component (owner-scoped variant) and of the App        *)
(* component (unscoped variant), the requests they send to the remote      *)
(* store, and the continuations that run when a request resolves.          *)
(*                                                                         *)
(* Every handler is an async function: the code up to its await runs as    *)
(* one step (React batches the state updates of one synchronous block, so  *)
(* only the last value set for a state cell is the one that lands), the    *)
(* request is then in flight, and the code after the await runs as a       *)
(* second step when the reply arrives.  A handler is a closure of the      *)
(* render in which the event was dispatched: the `todos` it reads after    *)
(* the await is the array of that render, kept in the request as           *)
(* `closure`.                                                              *)
(***************************************************************************)
EXTENDS Integers, Sequences, FiniteSets, TLC

VARIABLES
  variant,   \* "Dashboard" (owner-scoped) or "App" (unscoped); fixed in Init
  mounted,   \* the mount effect has run
  todos,     \* useState([])   : the local collection
  loading,   \* useState(true) : the loading flag
  error,     \* useState(null) : the error slot
  newTodo,   \* useState("")   : the text of the add form
  inflight,  \* the requests issued and not yet resolved, oldest first
  submits,   \* number of submit events of the add form handled so far
  clicks,    \* number of row events (toggle, delete, save) handled so far
  server,    \* the remote todos table, newest row first (created_at descending)
  nextId,    \* the id the remote store gives to the next inserted row
  editing    \* TodoItem useState(false): the ids of the rows in edit mode

vars == <<variant, mounted, todos, loading, error, newTodo, inflight,
          submits, clicks, server, nextId, editing>>

\* ---------------------------------------------------------------- bounds

\* User events (submit, toggle, delete, save) handled in one behaviour.
MaxOps == 2

\* ---------------------------------------------------------------- values

\* null, for the cells that hold a string (the error slot, a row's user_id).
Null == "null"

\* An optional value: <<>> when absent, <<v>> when present.
None == <<>>
Some(v) == <<v>>

\* The signed-in principal (user.id) and another principal of the store.
UserId == "u1"
OtherId == "u2"

\* Texts a user types, as sequences of characters.
Texts == { <<>>, <<" ">>, <<" ", "a", " ">> }

\* String.prototype.trim: strips leading and trailing whitespace.
RECURSIVE TrimLeft(_)
TrimLeft(s) ==
  IF s # <<>> /\ Head(s) = " " THEN TrimLeft(Tail(s)) ELSE s

RECURSIVE TrimRight(_)
TrimRight(s) ==
  IF s # <<>> /\ s[Len(s)] = " " THEN TrimRight(SubSeq(s, 1, Len(s) - 1)) ELSE s

Trim(s) == TrimRight(TrimLeft(s))

\* The message of the failure the remote store reports for an operation.
ErrMessage(op) == op \o " failed"

\* Rows present in the remote table before the component mounts.  The store
\* applies the filters a request carries; the Dashboard scopes every request
\* to user.id, the App sends none and reads the whole table.
SeedRows ==
  << [id |-> 2, title |-> <<"b">>, is_done |-> FALSE, user_id |-> OtherId],
     [id |-> 1, title |-> <<"b">>, is_done |-> FALSE, user_id |-> UserId] >>

\* ---------------------------------------------------------------- helpers

Ids(s) == { s[i].id : i \in 1..Len(s) }

\* React applies the state updates of one synchronous block together: the
\* cell ends with the value of the last setter call, or keeps its value.
LastSet(cur, calls) == IF calls = <<>> THEN cur ELSE calls[Len(calls)]

\* .eq("user_id", user.id): present in Dashboard, absent in App.
OwnerScope == IF variant = "Dashboard" THEN Some(UserId) ELSE None

NoPayload == [title |-> None, is_done |-> None, user_id |-> None]

\* A row matches the equality filters of a request.
Matches(row, req) ==
  /\ req.id = None \/ req.id = Some(row.id)
  /\ req.user_id = None \/ req.user_id = Some(row.user_id)

\* ---------------------------------------------------------------- requests

\* supabase.from("todos").select("*").eq("user_id", user.id).order(...)
SelectRequest ==
  [handler |-> "fetchTodos", op |-> "select", id |-> None,
   user_id |-> OwnerScope, payload |-> NoPayload, closure |-> <<>>,
   phase |-> "sent", data |-> None, error |-> Null]

\* supabase.from("todos").insert([{title: newTodo.trim(), is_done: false,
\* user_id: user.id}]).select()
InsertRequest(text, snapshot) ==
  [handler |-> "handleAddTodo", op |-> "insert", id |-> None, user_id |-> None,
   payload |-> [title |-> Some(Trim(text)), is_done |-> Some(FALSE),
                user_id |-> OwnerScope],
   closure |-> snapshot, phase |-> "sent", data |-> None, error |-> Null]

\* supabase.from("todos").update({is_done: !todo.is_done}).eq("id", id)
\*   .eq("user_id", user.id)
ToggleRequest(id, todo, snapshot) ==
  [handler |-> "handleToggleTodo", op |-> "update", id |-> Some(id),
   user_id |-> OwnerScope,
   payload |-> [title |-> None, is_done |-> Some(~todo.is_done), user_id |-> None],
   closure |-> snapshot, phase |-> "sent", data |-> None, error |-> Null]

\* A delete that filters on the id alone, as App's does.
DeleteRequestUnscoped(id, snapshot) ==
  [handler |-> "handleDeleteTodo", op |-> "delete", id |-> Some(id),
   user_id |-> None, payload |-> NoPayload,
   closure |-> snapshot, phase |-> "sent", data |-> None, error |-> Null]

\* supabase.from("todos").delete().eq("id", id).eq("user_id", user.id)
DeleteRequest(id, snapshot) ==
  [handler |-> "handleDeleteTodo", op |-> "delete", id |-> Some(id),
   user_id |-> OwnerScope, payload |-> NoPayload,
   closure |-> snapshot, phase |-> "sent", data |-> None, error |-> Null]

\* supabase.from("todos").update({title: newTitle}).eq("id", id)
\*   .eq("user_id", user.id)
UpdateRequest(id, newTitle, snapshot) ==
  [handler |-> "handleUpdateTodo", op |-> "update", id |-> Some(id),
   user_id |-> OwnerScope,
   payload |-> [title |-> Some(newTitle), is_done |-> None, user_id |-> None],
   closure |-> snapshot, phase |-> "sent", data |-> None, error |-> Null]

\* The request is sent: it is in flight.
Send(req) == inflight' = Append(inflight, req)

\* The in-flight requests once the continuation of the n-th has run.
Settle(n) == SubSeq(inflight, 1, n - 1) \o SubSeq(inflight, n + 1, Len(inflight))

\* The continuation has run and its catch block has called fetchTodos().
SettleAndRefetch(n) == inflight' = Append(Settle(n), SelectRequest)

\* ---------------------------------------------------------------- local updates

\* A fetch that keeps the previous collection when the answer holds no data.
FetchResultKeepsOld(data) == IF data = None THEN todos ELSE data[1]

\* setTodos(data || [])
FetchResult(data) == IF data = None THEN <<>> ELSE data[1]

\* An Add that prepends to the collection current at confirmation time.
AddResultCurrent(data, snapshot) == <<data[1][1]>> \o todos

\* setTodos([data[0], ...todos])
AddResult(data, snapshot) == <<data[1][1]>> \o snapshot

\* A Toggle whose confirmation leaves the local record as it was.
ToggleResultUnflipped(snapshot, id) == snapshot

\* setTodos(todos.map((t) => (t.id === id ? { ...t, is_done: !t.is_done } : t)))
ToggleResult(snapshot, id) ==
  [i \in 1..Len(snapshot) |->
     IF snapshot[i].id = id
     THEN [snapshot[i] EXCEPT !.is_done = ~snapshot[i].is_done]
     ELSE snapshot[i]]

\* setTodos(todos.filter((t) => t.id !== id))
DeleteResult(snapshot, id) == SelectSeq(snapshot, LAMBDA t : t.id # id)

\* A Rename that patches the collection current at confirmation time.
UpdateResultCurrent(snapshot, id, newTitle) ==
  [i \in 1..Len(todos) |->
     IF todos[i].id = id THEN [todos[i] EXCEPT !.title = newTitle] ELSE todos[i]]

\* setTodos(todos.map((t) => (t.id === id ? { ...t, title: newTitle } : t)))
UpdateResult(snapshot, id, newTitle) ==
  [i \in 1..Len(snapshot) |->
     IF snapshot[i].id = id
     THEN [snapshot[i] EXCEPT !.title = newTitle]
     ELSE snapshot[i]]

\* ---------------------------------------------------------------- initial state

Init ==
  /\ variant \in {"Dashboard", "App"}
  /\ mounted = FALSE
  /\ todos = <<>>
  /\ loading = TRUE
  /\ error = Null
  /\ newTodo = <<>>
  /\ inflight = <<>>
  /\ submits = 0
  /\ clicks = 0
  /\ server \in {<<>>, SeedRows}
  /\ nextId = 3
  /\ editing = {}

\* ---------------------------------------------------------------- user events

\* useEffect(() => { if (user) fetchTodos() }, [user]): fetchTodos up to its await.
Mount ==
  /\ ~mounted
  /\ mounted' = TRUE
  /\ loading' = LastSet(loading, <<TRUE>>)
  /\ error' = LastSet(error, <<Null>>)
  /\ Send(SelectRequest)
  /\ UNCHANGED <<variant, todos, newTodo, submits, clicks, server, nextId, editing>>

\* onChange={(e) => setNewTodo(e.target.value)}
SetNewTodo(text) ==
  /\ mounted
  /\ newTodo # text
  /\ newTodo' = text
  /\ UNCHANGED <<variant, mounted, todos, loading, error, inflight,
                 submits, clicks, server, nextId, editing>>

\* A blank test that forgets to trim: if (!newTodo) return
IsBlankUntrimmed(text) == text = <<>>

\* if (!newTodo.trim()) return
IsBlank(text) == Trim(text) = <<>>

\* handleAddTodo up to its await: the form is rendered whatever `loading` is.
handleAddTodo ==
  /\ mounted
  /\ submits + clicks < MaxOps
  /\ submits' = submits + 1
  /\ \/ /\ IsBlank(newTodo)                         \* return
        /\ UNCHANGED <<error, inflight>>
     \/ /\ ~IsBlank(newTodo)
        /\ error' = LastSet(error, <<Null>>)
        /\ Send(InsertRequest(newTodo, todos))
  /\ UNCHANGED <<variant, mounted, todos, loading, newTodo, clicks, server, nextId,
                 editing>>

\* The rows are rendered, with their controls, only while loading is false;
\* a row passes its own todo.id to the handlers.
Rendered(id) == mounted /\ ~loading /\ id \in Ids(todos)

\* handleToggleTodo up to its await.
handleToggleTodo(id) ==
  /\ Rendered(id)
  /\ submits + clicks < MaxOps
  /\ clicks' = clicks + 1
  /\ \E i \in 1..Len(todos) :
       /\ todos[i].id = id
       /\ \A j \in 1..(i - 1) : todos[j].id # id     \* todos.find: the first match
       /\ Send(ToggleRequest(id, todos[i], todos))
  /\ UNCHANGED <<variant, mounted, todos, loading, error, newTodo, submits,
                 server, nextId, editing>>

\* handleDeleteTodo up to its await; a row shows its Delete button (and its
\* Edit button) only while it is not in edit mode.
handleDeleteTodo(id) ==
  /\ Rendered(id)
  /\ id \notin editing
  /\ submits + clicks < MaxOps
  /\ clicks' = clicks + 1
  /\ Send(DeleteRequest(id, todos))
  /\ UNCHANGED <<variant, mounted, todos, loading, error, newTodo, submits,
                 server, nextId, editing>>

\* handleUpdateTodo up to its await.
handleUpdateTodo(id, newTitle) ==
  /\ Send(UpdateRequest(id, newTitle, todos))
  /\ UNCHANGED <<variant, mounted, todos, loading, error, newTodo, submits,
                 server, nextId>>

\* The Edit button of a row: onClick={() => setIsEditing(true)}.  Entering and
\* leaving edit mode are not counted as row events, and are followed only
\* while a counted event can still be handled.
handleEdit(id) ==
  /\ Rendered(id)
  /\ id \notin editing
  /\ submits + clicks < MaxOps
  /\ editing' = editing \cup {id}
  /\ UNCHANGED <<variant, mounted, todos, loading, error, newTodo, inflight,
                 submits, clicks, server, nextId>>

\* TodoItem.handleCancel: the Cancel button or the Escape key of a row in edit
\* mode.
handleCancel(id) ==
  /\ Rendered(id)
  /\ id \in editing
  /\ submits + clicks < MaxOps
  /\ editing' = editing \ {id}
  /\ UNCHANGED <<variant, mounted, todos, loading, error, newTodo, inflight,
                 submits, clicks, server, nextId>>

\* A handleSave that tests the text without trimming it: if (editedTitle)
handleSaveUntrimmed(id, editedTitle) ==
  /\ Rendered(id)
  /\ id \in editing
  /\ submits + clicks < MaxOps
  /\ clicks' = clicks + 1
  /\ \/ /\ editedTitle # <<>>
        /\ handleUpdateTodo(id, editedTitle)
        /\ editing' = editing \ {id}
     \/ /\ editedTitle = <<>>
        /\ UNCHANGED <<variant, mounted, todos, loading, error, newTodo, submits,
                       server, nextId, inflight, editing>>

\* TodoItem.handleSave: the Save button or the Enter key of a row in edit
\* mode, with the text of the row's edit field.
handleSave(id, editedTitle) ==
  /\ Rendered(id)
  /\ id \in editing
  /\ submits + clicks < MaxOps
  /\ clicks' = clicks + 1
  /\ \/ /\ Trim(editedTitle) # <<>>                 \* if (editedTitle.trim())
        /\ handleUpdateTodo(id, editedTitle)
        /\ editing' = editing \ {id}                 \* setIsEditing(false)
     \/ /\ Trim(editedTitle) = <<>>
        /\ UNCHANGED <<variant, mounted, todos, loading, error, newTodo, submits,
                       server, nextId, inflight, editing>>

\* ---------------------------------------------------------------- remote store

\* The row an insert creates: the store assigns id (and created_at, which the
\* table's order stands for); a column the payload leaves out is null.
InsertedRow(payload) ==
  [id |-> nextId, title |-> payload.title[1], is_done |-> payload.is_done[1],
   user_id |-> IF payload.user_id = None THEN Null ELSE payload.user_id[1]]

\* The row after an update's patch.
Patched(row, payload) ==
  [row EXCEPT !.title = IF payload.title = None THEN @ ELSE payload.title[1],
              !.is_done = IF payload.is_done = None THEN @ ELSE payload.is_done[1]]

\* The table after the store has carried out a request.
TableAfter(req) ==
  CASE req.op = "select" -> server
    [] req.op = "insert" -> <<InsertedRow(req.payload)>> \o server
    [] req.op = "update" ->
         [i \in 1..Len(server) |->
            IF Matches(server[i], req) THEN Patched(server[i], req.payload) ELSE server[i]]
    [] req.op = "delete" -> SelectSeq(server, LAMBDA row : ~Matches(row, req))

\* The `data` values the store may answer with.  A select answers the matching
\* rows in table order (created_at descending), or no data when none matches;
\* an insert followed by .select() answers the inserted row; update and delete
\* answer no data the handlers read.
DataOf(req) ==
  CASE req.op = "select" ->
         LET rows == SelectSeq(server, LAMBDA row : Matches(row, req))
         IN  IF rows = <<>> THEN {Some(rows), None} ELSE {Some(rows)}
    [] req.op = "insert" -> {Some(<<InsertedRow(req.payload)>>)}
    [] OTHER -> {None}

\* The store carries out request n and answers { data, error: null }.
StoreSucceeds(n) ==
  /\ n \in DOMAIN inflight
  /\ inflight[n].phase = "sent"
  /\ \E d \in DataOf(inflight[n]) :
       inflight' = [inflight EXCEPT ![n].phase = "replied", ![n].data = d]
  /\ server' = TableAfter(inflight[n])
  /\ nextId' = IF inflight[n].op = "insert" THEN nextId + 1 ELSE nextId
  /\ UNCHANGED <<variant, mounted, todos, loading, error, newTodo,
                 submits, clicks, editing>>

\* Request n fails: the answer is { data: null, error }, the table is untouched.
StoreFails(n) ==
  /\ n \in DOMAIN inflight
  /\ inflight[n].phase = "sent"
  /\ inflight' = [inflight EXCEPT ![n].phase = "replied",
                                  ![n].error = ErrMessage(inflight[n].op)]
  /\ UNCHANGED <<variant, mounted, todos, loading, error, newTodo,
                 submits, clicks, server, nextId, editing>>

\* ---------------------------------------------------------------- continuations

\* {loading ? ... : <TodoList todos={todos} .../>} with key={todo.id}: a row
\* keeps its state from one render to the next while the list is shown and
\* holds a record of its id; a row mounted anew is not in edit mode.
StillEditing(nextLoading, nextTodos) ==
  IF nextLoading THEN {} ELSE editing \cap Ids(nextTodos)

Replied(n, handler) ==
  /\ n \in DOMAIN inflight
  /\ inflight[n].phase = "replied"
  /\ inflight[n].handler = handler

\* A catch block for fetchTodos that empties the collection it could not reload.
FetchCatchEmpties(n) ==
  /\ error' = LastSet(error, <<inflight[n].error>>)
  /\ todos' = <<>>
  /\ inflight' = Settle(n)

\* A catch block for fetchTodos that tries again: it sends the select once more.
FetchCatchRetries(n) ==
  /\ error' = LastSet(error, <<inflight[n].error>>)
  /\ todos' = todos
  /\ inflight' = Append(Settle(n), SelectRequest)

\* The catch block of fetchTodos: setError(err.message), nothing else.
FetchCatch(n) ==
  /\ error' = LastSet(error, <<inflight[n].error>>)
  /\ todos' = todos
  /\ inflight' = Settle(n)

\* fetchTodos after its await: try / catch / finally.
fetchTodosDone(n) ==
  /\ Replied(n, "fetchTodos")
  /\ \/ /\ inflight[n].error = Null
        /\ todos' = FetchResult(inflight[n].data)
        /\ error' = error
        /\ inflight' = Settle(n)
     \/ /\ inflight[n].error # Null                 \* if (fetchError) throw fetchError
        /\ FetchCatch(n)
  /\ loading' = LastSet(loading, <<FALSE>>)         \* finally
  /\ editing' = StillEditing(loading', todos')
  /\ UNCHANGED <<variant, mounted, newTodo, submits, clicks, server, nextId>>

\* The catch block of handleToggleTodo, handleDeleteTodo and handleUpdateTodo:
\* setError(err.message), then fetchTodos() up to its await, which calls
\* setLoading(true) and setError(null) before it sends its select.
CatchAndRefetch(n) ==
  /\ error' = LastSet(error, <<inflight[n].error, Null>>)
  /\ loading' = LastSet(loading, <<TRUE>>)
  /\ SettleAndRefetch(n)
  /\ todos' = todos

\* A catch block for Add that reloads as the other three do, and clears the input.
AddCatchReloads(n) ==
  /\ CatchAndRefetch(n)
  /\ newTodo' = <<>>

\* The catch block of handleAddTodo: setError(err.message), nothing else.
AddCatch(n) ==
  /\ error' = LastSet(error, <<inflight[n].error>>)
  /\ inflight' = Settle(n)
  /\ UNCHANGED <<todos, newTodo, loading>>

\* handleAddTodo after its await.
handleAddTodoDone(n) ==
  /\ Replied(n, "handleAddTodo")
  /\ \/ /\ inflight[n].error = Null
        /\ todos' = AddResult(inflight[n].data, inflight[n].closure)
        /\ newTodo' = LastSet(newTodo, << <<>> >>)
        /\ inflight' = Settle(n)
        /\ UNCHANGED <<error, loading>>
     \/ /\ inflight[n].error # Null                 \* if (insertError) throw insertError
        /\ AddCatch(n)
  /\ editing' = StillEditing(loading', todos')
  /\ UNCHANGED <<variant, mounted, submits, clicks, server, nextId>>

\* handleToggleTodo after its await.
handleToggleTodoDone(n) ==
  /\ Replied(n, "handleToggleTodo")
  /\ \/ /\ inflight[n].error = Null
        /\ todos' = ToggleResult(inflight[n].closure, inflight[n].id[1])
        /\ inflight' = Settle(n)
        /\ UNCHANGED <<error, loading>>
     \/ /\ inflight[n].error # Null                 \* if (updateError) throw updateError
        /\ CatchAndRefetch(n)
  /\ editing' = StillEditing(loading', todos')
  /\ UNCHANGED <<variant, mounted, newTodo, submits, clicks, server, nextId>>

\* handleDeleteTodo after its await.
handleDeleteTodoDone(n) ==
  /\ Replied(n, "handleDeleteTodo")
  /\ \/ /\ inflight[n].error = Null
        /\ todos' = DeleteResult(inflight[n].closure, inflight[n].id[1])
        /\ inflight' = Settle(n)
        /\ UNCHANGED <<error, loading>>
     \/ /\ inflight[n].error # Null                 \* if (deleteError) throw deleteError
        /\ CatchAndRefetch(n)
  /\ editing' = StillEditing(loading', todos')
  /\ UNCHANGED <<variant, mounted, newTodo, submits, clicks, server, nextId>>

\* handleUpdateTodo after its await.
handleUpdateTodoDone(n) ==
  /\ Replied(n, "handleUpdateTodo")
  /\ \/ /\ inflight[n].error = Null
        /\ todos' = UpdateResult(inflight[n].closure, inflight[n].id[1],
                                 inflight[n].payload.title[1])
        /\ inflight' = Settle(n)
        /\ UNCHANGED <<error, loading>>
     \/ /\ inflight[n].error # Null                 \* if (updateError) throw updateError
        /\ CatchAndRefetch(n)
  /\ editing' = StillEditing(loading', todos')
  /\ UNCHANGED <<variant, mounted, newTodo, submits, clicks, server, nextId>>

\* ---------------------------------------------------------------- specification

\* Ids a row event may name, and request numbers.
RowIds == 1..(nextId - 1)
ReqNums == 1..Len(inflight)

Next ==
  \/ Mount
  \/ \E text \in Texts : SetNewTodo(text)
  \/ handleAddTodo
  \/ \E id \in RowIds : handleToggleTodo(id)
  \/ \E id \in RowIds : handleDeleteTodo(id)
  \/ \E id \in RowIds : handleEdit(id)
  \/ \E id \in RowIds : handleCancel(id)
  \/ \E id \in RowIds, text \in Texts : handleSave(id, text)
  \/ \E n \in ReqNums : StoreSucceeds(n)
  \/ \E n \in ReqNums : StoreFails(n)
  \/ \E n \in ReqNums : fetchTodosDone(n)
  \/ \E n \in ReqNums : handleAddTodoDone(n)
  \/ \E n \in ReqNums : handleToggleTodoDone(n)
  \/ \E n \in ReqNums : handleDeleteTodoDone(n)
  \/ \E n \in ReqNums : handleUpdateTodoDone(n)

Spec == Init /\ [][Next]_vars

\* The mount effect runs, the store answers every request it was sent (no
\* request is cancelled or times out) and the event loop runs every
\* continuation whose answer has arrived.  The user is under no obligation.
Fairness ==
  /\ WF_vars(Mount)
  /\ WF_vars(\E n \in ReqNums : StoreSucceeds(n) \/ StoreFails(n))
  /\ WF_vars(\E n \in ReqNums : \/ fetchTodosDone(n)
                                 \/ handleAddTodoDone(n)
                                 \/ handleToggleTodoDone(n)
                                 \/ handleDeleteTodoDone(n)
                                 \/ handleUpdateTodoDone(n))

FairSpec == Spec /\ Fairness

\* A single client that waits: a user event is handled only when no request
\* is in flight, and the store carries out every request.
Idle == inflight = <<>>

SeqNext ==
  \/ Mount
  \/ \E text \in Texts : SetNewTodo(text)
  \/ Idle /\ handleAddTodo
  \/ \E id \in RowIds : Idle /\ handleToggleTodo(id)
  \/ \E id \in RowIds : Idle /\ handleDeleteTodo(id)
  \/ \E id \in RowIds : handleEdit(id)
  \/ \E id \in RowIds : handleCancel(id)
  \/ \E id \in RowIds, text \in Texts : Idle /\ handleSave(id, text)
  \/ \E n \in ReqNums : StoreSucceeds(n)
  \/ \E n \in ReqNums : fetchTodosDone(n)
  \/ \E n \in ReqNums : handleAddTodoDone(n)
  \/ \E n \in ReqNums : handleToggleTodoDone(n)
  \/ \E n \in ReqNums : handleDeleteTodoDone(n)
  \/ \E n \in ReqNums : handleUpdateTodoDone(n)

SeqSpec == Init /\ [][SeqNext]_vars

\* ---------------------------------------------------------------- steps the claims speak of

\* This step runs the continuation of the n-th request in flight.
Resolves(n) ==
  /\ inflight[n].phase = "replied"
  /\ \/ inflight' = Settle(n)
     \/ inflight' = Append(Settle(n), SelectRequest)

\* This step runs the continuation of a request of `handler` that succeeded.
Confirmed(n, handler) ==
  /\ Resolves(n)
  /\ inflight[n].handler = handler
  /\ inflight[n].error = Null

\* This step runs the continuation of a request of `handler` that failed.
Failed(n, handler) ==
  /\ Resolves(n)
  /\ inflight[n].handler = handler
  /\ inflight[n].error # Null

\* This step issues a request of `handler`.
Issues(handler) ==
  /\ Len(inflight') = Len(inflight) + 1
  /\ inflight'[Len(inflight')].handler = handler
  /\ inflight'[Len(inflight')].phase = "sent"

InFlight == 1..Len(inflight)

\* ---------------------------------------------------------------- claims

\* C1: when the insert of an Add is confirmed, the collection is exactly one
\* record longer than it was just before the confirmation, the returned record
\* is first, and the records present before follow it in their order.
C1_AddConfirmedPrepends ==
  [][\A n \in InFlight : Confirmed(n, "handleAddTodo") =>
        /\ Len(todos') = Len(todos) + 1
        /\ todos'[1] = inflight[n].data[1][1]
        /\ Tail(todos') = todos]_vars

\* C2: when the update of a Toggle is confirmed, exactly the record with that
\* id has is_done inverted with respect to the collection just before the
\* confirmation, and every other record is unchanged and in its place.
C2_ToggleConfirmedFlipsOne ==
  [][\A n \in InFlight : Confirmed(n, "handleToggleTodo") =>
        /\ Len(todos') = Len(todos)
        /\ Cardinality({i \in 1..Len(todos) : todos[i].id = inflight[n].id[1]}) = 1
        /\ \A i \in 1..Len(todos) :
             todos'[i] = IF todos[i].id = inflight[n].id[1]
                         THEN [todos[i] EXCEPT !.is_done = ~todos[i].is_done]
                         ELSE todos[i]]_vars

\* C3: Toggle is optimistic: the step that issues the update of Toggle(id)
\* also flips is_done of the local record with that id.
C3_ToggleFlipsWhenIssued ==
  [][Issues("handleToggleTodo") =>
        \E i \in 1..Len(todos) :
          /\ todos[i].id = inflight'[Len(inflight')].id[1]
          /\ Len(todos') = Len(todos)
          /\ todos'[i].is_done = ~todos[i].is_done]_vars

\* C4: when the remote call of a Toggle, Delete or Rename fails, the failure's
\* message is in the error slot once the handler has run, and exactly one
\* select has been issued to reload the collection.
C4_MutationFailureRecordsAndReloads ==
  [][\A n \in InFlight :
        \A h \in {"handleToggleTodo", "handleDeleteTodo", "handleUpdateTodo"} :
          Failed(n, h) =>
            /\ error' = inflight[n].error
            /\ inflight' = Append(Settle(n), SelectRequest)]_vars

\* C5: every failure of a remote request is in the error slot once its
\* handler has run: the slot then holds that failure's message.
C5_EveryFailureInErrorSlot ==
  [][\A n \in InFlight :
        (Resolves(n) /\ inflight[n].error # Null) => error' = inflight[n].error]_vars

\* C6: when the delete of a Delete is confirmed, the collection is exactly one
\* record shorter than it was just before the confirmation, no record has that
\* id, and the other records are unchanged and in their order.
C6_DeleteConfirmedRemovesOne ==
  [][\A n \in InFlight : Confirmed(n, "handleDeleteTodo") =>
        /\ Len(todos') = Len(todos) - 1
        /\ inflight[n].id[1] \notin Ids(todos')
        /\ todos' = SelectSeq(todos, LAMBDA t : t.id # inflight[n].id[1])]_vars

\* C7: when a List succeeds, the collection becomes exactly the sequence the
\* store answered, in the answered order, and the empty collection when the
\* answer holds no data; nothing of the previous collection survives.
C7_ListReplacesCollection ==
  [][\A n \in InFlight : Confirmed(n, "fetchTodos") =>
        /\ inflight[n].data # None => todos' = inflight[n].data[1]
        /\ inflight[n].data = None => todos' = <<>>]_vars

\* C7 witness: the App's first List has succeeded: the collection, empty before,
\* holds the two rows of the store in the store's order.
C7_Witness ==
  /\ variant = "App"
  /\ ~loading
  /\ todos = SeedRows
  /\ inflight = <<>>

\* C8: in the Dashboard every request in flight carries the principal: a
\* select filters on user_id, an update or a delete filters on id and on
\* user_id, an insert gives the row the principal's user_id.
C8_RequestsCarryOwner ==
  variant = "Dashboard" =>
    \A n \in InFlight :
      LET r == inflight[n] IN
        /\ r.op = "select" => r.user_id = Some(UserId)
        /\ r.op \in {"update", "delete"} => r.user_id = Some(UserId) /\ r.id # None
        /\ r.op = "insert" => r.payload.user_id = Some(UserId)

\* C8 witness: the Dashboard has a delete and an insert in flight together.
C8_Witness ==
  /\ variant = "Dashboard"
  /\ \E n \in InFlight : inflight[n].op = "delete"
  /\ \E n \in InFlight : inflight[n].op = "insert"

\* C9: a submit of the add form with an empty or whitespace-only text issues
\* no request and leaves the collection, the error slot and the text as they are.
C9_BlankAddIsNoOp ==
  [][(submits' = submits + 1 /\ Trim(newTodo) = <<>>) =>
        UNCHANGED <<todos, error, newTodo, inflight, loading, server>>]_vars

\* C9 witness: a whitespace-only text has been submitted while the first List
\* is still unanswered; nothing was sent and no error is shown.
C9_Witness ==
  /\ submits = 1
  /\ clicks = 0
  /\ newTodo = <<" ">>
  /\ Len(inflight) = 1
  /\ inflight[1].phase = "sent"
  /\ nextId = 3
  /\ error = Null

C11_ListFailureKeepsCollection ==
  [][\A n \in InFlight : Failed(n, "fetchTodos") =>
        /\ todos' = todos
        /\ error' = inflight[n].error]_vars

\* C11 witness: the reload after a failed mutation has itself failed: the rows
\* listed at first are still shown, with the message of the failed select.
C11_Witness ==
  /\ error = ErrMessage("select")
  /\ todos # <<>>
  /\ ~loading
  /\ inflight = <<>>

\* Titles on their way to the store: the title of an insert, the new title of
\* an update.
SubmittedTitles ==
  { inflight[n].payload.title[1] :
      n \in { m \in InFlight : inflight[m].payload.title # None } }

\* C13: every title submitted to the store, by the insert of Add or by the
\* update of Rename, is non-empty and carries no leading or trailing whitespace.
C13_SubmittedTitlesTrimmed ==
  \A t \in SubmittedTitles : t # <<>> /\ Trim(t) = t

\* C14: no unbounded retry.  A request is issued only by the mount effect, by
\* a user event (one request) or by the continuation of a failed Toggle,
\* Delete or Rename (one select); a failed List or a failed Add records its
\* message and issues nothing, and no success issues anything.  With the user
\* events of a behaviour bounded, the requests in flight run out for good.
C14_NoUnboundedRetry ==
  /\ [][/\ Len(inflight') > Len(inflight) =>
             /\ Len(inflight') = Len(inflight) + 1
             /\ ~mounted \/ submits' + clicks' = submits + clicks + 1
        /\ \A n \in InFlight :
             /\ Resolves(n) => Len(inflight') <= Len(inflight)
             /\ (Failed(n, "fetchTodos") \/ Failed(n, "handleAddTodo")) =>
                  /\ inflight' = Settle(n)
                  /\ error' = inflight[n].error
             /\ (Resolves(n) /\ inflight[n].error = Null) => inflight' = Settle(n)]_vars
  /\ <>[](inflight = <<>>)

\* C14 witness: every user event of the behaviour was a row event, a mutation
\* failed, its reload failed too, and nothing is in flight any more.
C14_Witness ==
  /\ clicks = MaxOps
  /\ error = ErrMessage("select")
  /\ inflight = <<>>

\* The local records with a given id, and the store's.
LocalOf(id) == { todos[i] : i \in { j \in 1..Len(todos) : todos[j].id = id } }
StoredOf(id) == { server[i] : i \in { j \in 1..Len(server) : server[j].id = id } }

\* C15: Toggle and Rename on one id are not mutually excluded.  The
\* confirmation of either rebuilds the collection from the collection captured
\* when it was issued: after a Rename is confirmed is_done of the record is the
\* captured one, after a Toggle is confirmed its title is the captured one,
\* whatever was confirmed in between; and a confirmation issues no List.
C15_LastConfirmationWins ==
  [][\A n \in InFlight :
        LET id == inflight[n].id[1]
            captured == inflight[n].closure
        IN  /\ Confirmed(n, "handleUpdateTodo") =>
                 /\ inflight' = Settle(n)
                 /\ Len(todos') = Len(captured)
                 /\ \A i \in 1..Len(captured) : captured[i].id = id =>
                      /\ todos'[i].is_done = captured[i].is_done
                      /\ todos'[i].title = inflight[n].payload.title[1]
            /\ Confirmed(n, "handleToggleTodo") =>
                 /\ inflight' = Settle(n)
                 /\ Len(todos') = Len(captured)
                 /\ \A i \in 1..Len(captured) : captured[i].id = id =>
                      /\ todos'[i].title = captured[i].title
                      /\ todos'[i].is_done = ~captured[i].is_done]_vars

\* C15 witness: a Toggle and a Rename of row 1 were in flight together and both
\* succeeded; the Rename was confirmed last.  The store's row is renamed and
\* done, the local record is renamed and not done, nothing is in flight, no
\* error is shown and no List is on its way.
C15_Witness ==
  /\ clicks = 2
  /\ inflight = <<>>
  /\ ~loading
  /\ error = Null
  /\ \E r \in LocalOf(1) : r.title = <<" ", "a", " ">> /\ ~r.is_done
  /\ \E r \in StoredOf(1) : r.title = <<" ", "a", " ">> /\ r.is_done

\* C16: in every state in which a List request is in flight, loading is true.
C16_LoadingWhileListInFlight ==
  (\E n \in InFlight : inflight[n].handler = "fetchTodos") => loading

\* C17: no two records of the collection share an id, every id is one the
\* store has assigned, and the confirmation of a Toggle or of a Rename leaves
\* the id of every record as it was captured.
C17_IdsUniqueAndImmutable ==
  /\ [](/\ \A i, j \in 1..Len(todos) : i # j => todos[i].id # todos[j].id
        /\ Ids(todos) \subseteq RowIds)
  /\ [][\A n \in InFlight :
          (Confirmed(n, "handleToggleTodo") \/ Confirmed(n, "handleUpdateTodo")) =>
            /\ Len(todos') = Len(inflight[n].closure)
            /\ \A i \in 1..Len(todos') : todos'[i].id = inflight[n].closure[i].id]_vars

\* C17 witness: the record of a confirmed Add stands before the two listed rows.
C17_Witness ==
  /\ Len(todos) = 3
  /\ todos[1].id = 3
  /\ inflight = <<>>

\* The store's rows in the client's scope, in the order a List answers them.
ScopeRows == SelectSeq(server, LAMBDA row : Matches(row, SelectRequest))

\* C18: for a single client that issues each operation after the previous one
\* has resolved, with every remote call succeeding, the collection holds
\* exactly the store's rows of its scope whenever nothing is in flight.
C18_SequentialConvergence ==
  (mounted /\ inflight = <<>>) => todos = ScopeRows

\* C18 witness: the first List, an Add and a Toggle of the added row have
\* resolved in turn.
C18_Witness ==
  /\ mounted
  /\ inflight = <<>>
  /\ submits = 1
  /\ clicks = 1
  /\ todos # <<>>
  /\ todos[1].id = 3
  /\ todos[1].is_done

\* C12: a Save of a row in edit mode whose text is empty or only whitespace is
\* rejected locally: handleUpdateTodo is not called and no request is issued,
\* the row stays in edit mode and the collection, with the record's title, is
\* as before; and every Rename request in flight carries a title whose
\* trimmed text is not empty.
C12_BlankRenameRejected ==
  /\ [][\A id \in RowIds, text \in Texts :
          (Trim(text) = <<>> /\ handleSave(id, text)) =>
            /\ inflight' = inflight
            /\ id \in editing'
            /\ todos' = todos
            /\ server' = server]_vars
  /\ [](\A n \in InFlight :
          inflight[n].handler = "handleUpdateTodo" =>
            Trim(inflight[n].payload.title[1]) # <<>>)

\* C12 witness: row 1 was put in edit mode and a blank text was saved twice;
\* the row is still in edit mode, nothing was sent and the store and the
\* collection still hold the listed row.
C12_Witness ==
  /\ variant = "Dashboard"
  /\ clicks = MaxOps
  /\ submits = 0
  /\ 1 \in editing
  /\ inflight = <<>>
  /\ error = Null
  /\ server = SeedRows
  /\ \E r \in LocalOf(1) : r.title = <<"b">> /\ ~r.is_done

====
